---- MODULE Spec2Model ----
(***************************************************************************)
(* Model of page_loader/loading_handler/html_parser.py: parse_page fetches *)
(* a page, search_resources rewrites the links of local resources in the   *)
(* parse tree and collects them, save_resources downloads them one by one. *)
(* URLs and file names are strings; urlparse, urljoin and os.path.join are *)
(* computed character by character as the standard library computes them  *)
(* (for links without query, fragment or parameters).                      *)
(***************************************************************************)
EXTENDS Integers, Sequences, FiniteSets, TLC

VARIABLES
    url,            \* parse_page: the page being downloaded
    dir_path,       \* parse_page: the directory the resources are saved in
    pc,             \* position in parse_page
    error,          \* the exception that left parse_page, "" if none
    page_text,      \* the elements of the fetched page, in document order
    soup,           \* search_resources: the parse tree being rewritten
    tag_idx,        \* search_resources: index of the current key of the table
    found,          \* search_resources: elements of find_all still to visit
    cur,            \* search_resources: the element visited last (0: none)
    link,           \* search_resources: the full link computed last
    resources,      \* the list of resources collected
    html,           \* the processed page search_resources returned
    res_idx,        \* save_resources: number of resources saved
    content,        \* save_resources: the bytes fetched last
    disk,           \* the files written: pairs <<path, bytes>>
    requests_log,   \* the calls of requests.get, with their outcome
    writes_log      \* the attempts to write a file, with their outcome

vars == <<url, dir_path, pc, error, page_text, soup, tag_idx, found, cur, link,
          resources, html, res_idx, content, disk, requests_log, writes_log>>

(* ------------------------------ bounds --------------------------------- *)

\* largest number of elements of a downloaded page
MaxElems == 2

(* --------------------------- string helpers ---------------------------- *)

Letters == {"a","b","c","d","e","f","g","h","i","j","k","l","m",
            "n","o","p","q","r","s","t","u","v","w","x","y","z"}

Digits == {"0","1","2","3","4","5","6","7","8","9"}

\* the Python slice s[m-1:n] of a string (empty when out of range)
Slice(s, m, n) ==
    IF m > Len(s) \/ n < m THEN ""
    ELSE SubSeq(s, m, IF n > Len(s) THEN Len(s) ELSE n)

\* str.find(c): index of the first occurrence of character c, 0 if none
RECURSIVE FindFrom(_, _, _)
FindFrom(s, c, i) ==
    IF i > Len(s) THEN 0
    ELSE IF Slice(s, i, i) = c THEN i
    ELSE FindFrom(s, c, i + 1)

Find(s, c) == FindFrom(s, c, 1)

\* str.rfind(c): index of the last occurrence of character c, 0 if none
RECURSIVE RFindFrom(_, _, _)
RFindFrom(s, c, i) ==
    IF i < 1 THEN 0
    ELSE IF Slice(s, i, i) = c THEN i
    ELSE RFindFrom(s, c, i - 1)

RFind(s, c) == RFindFrom(s, c, Len(s))

\* str.split('/')
RECURSIVE Split(_)
Split(s) ==
    LET i == Find(s, "/")
    IN  IF i = 0 THEN <<s>>
        ELSE <<Slice(s, 1, i - 1)>> \o Split(Slice(s, i + 1, Len(s)))

\* '/'.join(parts)
RECURSIVE Join(_)
Join(parts) ==
    IF parts = << >> THEN ""
    ELSE IF Len(parts) = 1 THEN parts[1]
    ELSE parts[1] \o "/" \o Join(Tail(parts))

RECURSIVE AllIn(_, _)
AllIn(s, chars) ==
    IF s = "" THEN TRUE
    ELSE Slice(s, 1, 1) \in chars /\ AllIn(Slice(s, 2, Len(s)), chars)

(* ------------------------------ urllib --------------------------------- *)

SchemeChars == Letters \cup Digits \cup {"+", "-", "."}

\* urlsplit: the position of the colon that ends a scheme, 0 if the
\* reference starts with no scheme
SchemeEndAt(ref, i) ==
    IF i > 1 /\ Slice(ref, 1, 1) \in Letters
             /\ AllIn(Slice(ref, 1, i - 1), SchemeChars)
    THEN i ELSE 0

SchemeEnd(ref) == SchemeEndAt(ref, Find(ref, ":"))

\* _splitnetloc: the host runs up to the first slash at position j
SplitNetlocAt(scheme, after, j) ==
    [scheme |-> scheme,
     netloc |-> IF j = 0 THEN after ELSE Slice(after, 1, j - 1),
     path |-> IF j = 0 THEN "" ELSE Slice(after, j, Len(after))]

SplitNetloc(scheme, after) == SplitNetlocAt(scheme, after, Find(after, "/"))

\* urlsplit after the scheme has been taken off
SplitRest(scheme, rest) ==
    IF Slice(rest, 1, 2) = "//"
    THEN SplitNetloc(scheme, Slice(rest, 3, Len(rest)))
    ELSE [scheme |-> scheme, netloc |-> "", path |-> rest]

SplitAt(ref, i) ==
    SplitRest(Slice(ref, 1, i - 1),
              IF i = 0 THEN ref ELSE Slice(ref, i + 1, Len(ref)))

\* urllib.parse.urlparse: scheme, netloc and path of a URL reference
urlparse(ref) == SplitAt(ref, SchemeEnd(ref))

\* urlunsplit: the scheme is put before the rest
WithScheme(scheme, rest) ==
    IF scheme # "" THEN scheme \o ":" \o rest ELSE rest

\* urllib.parse.urlunparse
urlunparse(scheme, netloc, path) ==
    WithScheme(scheme,
        IF netloc # "" \/ (scheme # "" /\ Slice(path, 1, 2) # "//")
        THEN "//" \o netloc \o
             (IF path # "" /\ Slice(path, 1, 1) # "/"
              THEN "/" \o path ELSE path)
        ELSE path)

\* the filter(None, ...) of urljoin: drops the empty segments strictly
\* between the first and the last one
DropInnerEmpty(segs) ==
    IF Len(segs) <= 2 THEN segs
    ELSE <<segs[1]>>
         \o SelectSeq(SubSeq(segs, 2, Len(segs) - 1), LAMBDA x : x # "")
         \o <<segs[Len(segs)]>>

\* the dot-segment loop of urljoin
RECURSIVE Resolve(_, _)
Resolve(segs, acc) ==
    IF segs = << >> THEN acc
    ELSE IF Head(segs) = ".."
    THEN Resolve(Tail(segs),
                 IF acc = << >> THEN acc ELSE SubSeq(acc, 1, Len(acc) - 1))
    ELSE IF Head(segs) = "." THEN Resolve(Tail(segs), acc)
    ELSE Resolve(Tail(segs), Append(acc, Head(segs)))

\* urljoin: the segments of the base path without the last one, unless the
\* base path ends with a slash
BaseParts(base_split) ==
    IF base_split[Len(base_split)] # ""
    THEN SubSeq(base_split, 1, Len(base_split) - 1)
    ELSE base_split

\* urljoin: the segments of the joined path before the dots are resolved
Segments(base_parts, path) ==
    IF Slice(path, 1, 1) = "/" THEN Split(path)
    ELSE DropInnerEmpty(base_parts \o Split(path))

NonEmptyPath(joined) == IF joined = "" THEN "/" ELSE joined

\* urljoin: the joined path
ResolvedPath(segments) ==
    NonEmptyPath(Join(
        Resolve(segments, << >>)
        \o (IF segments[Len(segments)] \in {".", ".."}
            THEN <<"">> ELSE << >>)))

\* urljoin once both references are parsed and the scheme is settled
JoinParsed(ref, b, u, scheme) ==
    IF scheme # b.scheme \/ scheme \notin {"http", "https"} THEN ref
    ELSE IF u.netloc # "" THEN urlunparse(scheme, u.netloc, u.path)
    ELSE IF u.path = "" THEN urlunparse(scheme, b.netloc, b.path)
    ELSE urlunparse(scheme, b.netloc,
                    ResolvedPath(Segments(BaseParts(Split(b.path)), u.path)))

JoinSplit(ref, b, u) ==
    JoinParsed(ref, b, u, IF u.scheme = "" THEN b.scheme ELSE u.scheme)

\* urllib.parse.urljoin for the http and https schemes
urljoin(base, ref) ==
    IF base = "" THEN ref
    ELSE IF ref = "" THEN base
    ELSE JoinSplit(ref, urlparse(base), urlparse(ref))

\* os.path.join of two components (posixpath)
path_join(a, b) ==
    IF Slice(b, 1, 1) = "/" THEN b
    ELSE IF a = "" \/ Slice(a, Len(a), Len(a)) = "/" THEN a \o b
    ELSE a \o "/" \o b

(* ---------------- file_system_guide (not in this file) ----------------- *)

HTML_EXT == "html"

\* every character that is not a letter or a digit becomes a hyphen
RECURSIVE Sanitize(_)
Sanitize(s) ==
    IF s = "" THEN ""
    ELSE (IF Slice(s, 1, 1) \in Letters \cup Digits
          THEN Slice(s, 1, 1) ELSE "-") \o Sanitize(Slice(s, 2, Len(s)))

\* os.path.splitext with the dot of the extension dropped
SplitExtAt(path, dot, slash) ==
    IF dot > slash + 1
    THEN [root |-> Slice(path, 1, dot - 1),
          ext |-> Slice(path, dot + 1, Len(path))]
    ELSE [root |-> path, ext |-> ""]

SplitExt(path) == SplitExtAt(path, RFind(path, "."), RFind(path, "/"))

StripSlash(root) ==
    IF Slice(root, 1, 1) = "/" THEN Slice(root, 2, Len(root)) ELSE root

ParsedParts(netloc, split) ==
    [netloc |-> Sanitize(netloc),
     path |-> Sanitize(StripSlash(split.root)),
     ext |-> split.ext]

ParsedUrl(p) == ParsedParts(p.netloc, SplitExt(p.path))

\* host, path without extension and extension of a link, host and path
\* sanitized
parse_url(l) == ParsedUrl(urlparse(l))

\* name of the directory of the resources of a page
DirName(p) == Sanitize(p.netloc \o p.path) \o "_files"

get_dir_name(page_url) == DirName(urlparse(page_url))

(* ----------------------------- html_parser ----------------------------- *)

\* the keys of TAGS_LINK_ATTRIBUTES in insertion order
TagNames == <<"img", "link", "script">>

TAGS_LINK_ATTRIBUTES(name) ==
    CASE name = "img" -> "src"
      [] name = "link" -> "href"
      [] name = "script" -> "src"

DOMAIN_ADDRESS(scheme, netloc) == scheme \o "://" \o netloc

get_full_link(l, page_url) ==
    IF urlparse(l).netloc = ""
    THEN urljoin(DOMAIN_ADDRESS(urlparse(page_url).scheme,
                                urlparse(page_url).netloc), l)
    ELSE l

\* is_local_link when it accepts every link that names a host
is_local_link_any_host(l, page_url) ==
    urlparse(l).netloc # ""

is_local_link(l, page_url) ==
    urlparse(l).netloc = urlparse(page_url).netloc

\* line 115, with the parsed link at hand
ResourceName(parsed_resource_link) ==
    parsed_resource_link.netloc \o "-" \o parsed_resource_link.path \o "."
    \o (IF parsed_resource_link.ext # ""
        THEN parsed_resource_link.ext ELSE HTML_EXT)

create_resource_name(l) == ResourceName(parse_url(l))

(* ------------------------------ parse tree ----------------------------- *)

\* an element is [name |-> tag name, attrs |-> set of <<attribute, value>>]
HasAttr(tag, a) == \E p \in tag.attrs : p[1] = a

\* tag[a]
GetAttr(tag, a) == (CHOOSE p \in tag.attrs : p[1] = a)[2]

\* tag[a] = v
SetAttr(tag, a, v) ==
    [tag EXCEPT !.attrs = {p \in @ : p[1] # a} \cup {<<a, v>>}]

\* find_all when it yields the elements last to first
RECURSIVE find_all_reversed_from(_, _, _)
find_all_reversed_from(tree, name, i) ==
    IF i < 1 THEN << >>
    ELSE (IF tree[i].name = name THEN <<i>> ELSE << >>)
         \o find_all_reversed_from(tree, name, i - 1)

find_all_reversed(tree, name) == find_all_reversed_from(tree, name, Len(tree))

\* soup.find_all(name): the positions of the elements of that name, in
\* document order
RECURSIVE find_all_from(_, _, _)
find_all_from(tree, name, i) ==
    IF i > Len(tree) THEN << >>
    ELSE (IF tree[i].name = name THEN <<i>> ELSE << >>)
         \o find_all_from(tree, name, i + 1)

find_all(tree, name) == find_all_from(tree, name, 1)

\* soup.prettify(): the serialised tree; names, attributes and their values
\* are kept, the whitespace is not modelled
prettify(tree) == tree

(* ------------------------------- inputs -------------------------------- *)

PageUrls == {"https://example.com/blog/post"}

DirPaths == {"/out"}

\* attribute values found in pages: absolute path, relative path, another
\* host, protocol-relative, empty, and the same host under another scheme
RawLinks == {"/a.png", "style.css", "https://cdn.other.com/x.js",
             "//example.com/a.png", "", "http://example.com/a.png"}

Elements ==
    {[name |-> n, attrs |-> {<<TAGS_LINK_ATTRIBUTES(n), v>>}] :
        n \in {"img", "link", "script"}, v \in RawLinks}
    \cup {[name |-> "script", attrs |-> {}]}
    \cup {[name |-> "a", attrs |-> {<<"href", "/a.png">>}]}

Docs == UNION {[1..n -> Elements] : n \in 0..MaxElems}

\* bodies a server answers with: two successful ones and an error page
Bodies == {"x", "y"}

ErrorBody == "e"

(* ------------------------------ parse_page ----------------------------- *)

Init ==
    /\ url \in PageUrls
    /\ dir_path \in DirPaths
    /\ pc = "start"
    /\ error = ""
    /\ page_text = << >>
    /\ soup = << >>
    /\ tag_idx = 0
    /\ found = << >>
    /\ cur = 0
    /\ link = ""
    /\ resources = << >>
    /\ html = << >>
    /\ res_idx = 0
    /\ content = ""
    /\ disk = {}
    /\ requests_log = << >>
    /\ writes_log = << >>

\* an exception leaves parse_page: nothing catches it
Raise(e) ==
    /\ pc' = "raised"
    /\ error' = e

\* line 42: the page is fetched; lines 57-61: the tree is built
GetPage ==
    /\ pc = "start"
    /\ \E doc \in Docs :
          /\ page_text' = doc
          /\ soup' = doc
    /\ requests_log' = Append(requests_log,
          [pos |-> 0, url |-> url, result |-> "200", body |-> ""])
    /\ resources' = << >>
    /\ pc' = "search"
    /\ UNCHANGED <<url, dir_path, error, tag_idx, found, cur, link, html,
                   res_idx, content, disk, writes_log>>

\* line 42: requests.get raises
GetPageFails ==
    /\ pc = "start"
    /\ requests_log' = Append(requests_log,
          [pos |-> 0, url |-> url, result |-> "ConnectionError", body |-> ""])
    /\ Raise("ConnectionError")
    /\ UNCHANGED <<url, dir_path, page_text, soup, tag_idx, found, cur, link,
                   resources, html, res_idx, content, disk, writes_log>>

(* --------------------------- search_resources -------------------------- *)

\* lines 72-75
NewResource(l) == [link |-> l, name |-> create_resource_name(l)]

\* Rewrite when the directory of the resources is left out of the new value
Rewrite_without_dir(tag, l, page_url) ==
    SetAttr(tag, TAGS_LINK_ATTRIBUTES(tag.name), create_resource_name(l))

\* lines 69-70
Rewrite(tag, l, page_url) ==
    SetAttr(tag, TAGS_LINK_ATTRIBUTES(tag.name),
            path_join(get_dir_name(page_url), create_resource_name(l)))

\* lines 62-63: the next key of the table, and its elements
FindAll ==
    /\ pc = "search"
    /\ found = << >>
    /\ tag_idx < Len(TagNames)
    /\ tag_idx' = tag_idx + 1
    /\ found' = find_all(soup, TagNames[tag_idx + 1])
    /\ UNCHANGED <<url, dir_path, pc, error, page_text, soup, cur, link,
                   resources, html, res_idx, content, disk, requests_log,
                   writes_log>>

\* line 66: tag[link_attr] of an element without that attribute
TagKeyError ==
    /\ pc = "search"
    /\ found # << >>
    /\ LET tag == soup[Head(found)]
           link_attr == TAGS_LINK_ATTRIBUTES(tag.name)
       IN  /\ ~HasAttr(tag, link_attr)
           /\ cur' = Head(found)
           /\ Raise("KeyError")
    /\ UNCHANGED <<url, dir_path, page_text, soup, tag_idx, found, link,
                   resources, html, res_idx, content, disk, requests_log,
                   writes_log>>

\* lines 64-76: one element of the inner loop
ProcessTag ==
    /\ pc = "search"
    /\ found # << >>
    /\ LET i == Head(found)
           tag == soup[i]
           link_attr == TAGS_LINK_ATTRIBUTES(tag.name)
       IN  /\ HasAttr(tag, link_attr)
           /\ LET l == get_full_link(GetAttr(tag, link_attr), url)
              IN  /\ link' = l
                  /\ cur' = i
                  /\ IF is_local_link(l, url)
                     THEN /\ soup' = [soup EXCEPT ![i] = Rewrite(tag, l, url)]
                          /\ resources' = Append(resources, NewResource(l))
                     ELSE UNCHANGED <<soup, resources>>
    /\ found' = Tail(found)
    /\ UNCHANGED <<url, dir_path, pc, error, page_text, tag_idx, html,
                   res_idx, content, disk, requests_log, writes_log>>

\* lines 78-82: the tree is serialised; line 45: save_resources is entered
EndSearch ==
    /\ pc = "search"
    /\ found = << >>
    /\ tag_idx = Len(TagNames)
    /\ html' = prettify(soup)
    /\ pc' = "save"
    /\ UNCHANGED <<url, dir_path, error, page_text, soup, tag_idx, found, cur,
                   link, resources, res_idx, content, disk, requests_log,
                   writes_log>>

(* ---------------------------- save_resources --------------------------- *)

\* WriteFile when a file that exists is kept as it is
WriteFile_keeps_existing(d, path, data) ==
    IF \E f \in d : f[1] = path THEN d ELSE d \cup {<<path, data>>}

\* open(path, 'wb') and file.write(data): the file is created or truncated
WriteFile(d, path, data) ==
    {f \in d : f[1] # path} \cup {<<path, data>>}

\* line 129: requests.get answers; an error status is an answer like any
\* other, its body is the content
GetResource ==
    /\ pc = "save"
    /\ res_idx < Len(resources)
    /\ LET resource == resources[res_idx + 1]
       IN  /\ urlparse(resource.link).scheme # ""
           /\ \E answer \in ({"200"} \X Bodies) \cup {<<"404", ErrorBody>>} :
                 /\ content' = answer[2]
                 /\ requests_log' = Append(requests_log,
                       [pos |-> res_idx + 1, url |-> resource.link,
                        result |-> answer[1], body |-> answer[2]])
    /\ pc' = "write"
    /\ UNCHANGED <<url, dir_path, error, page_text, soup, tag_idx, found, cur,
                   link, resources, html, res_idx, disk, writes_log>>

\* GetResourceFails when the failure is caught and the loop goes on
GetResourceFails_skips ==
    /\ pc = "save"
    /\ res_idx < Len(resources)
    /\ LET resource == resources[res_idx + 1]
           e == IF urlparse(resource.link).scheme = ""
                THEN "MissingSchema" ELSE "ConnectionError"
       IN  requests_log' = Append(requests_log,
                 [pos |-> res_idx + 1, url |-> resource.link,
                  result |-> e, body |-> ""])
    /\ res_idx' = res_idx + 1
    /\ UNCHANGED <<url, dir_path, pc, error, page_text, soup, tag_idx, found,
                   cur, link, resources, html, content, disk, writes_log>>

\* GetResourceFails when the files written so far are removed
GetResourceFails_cleans ==
    /\ pc = "save"
    /\ res_idx < Len(resources)
    /\ LET resource == resources[res_idx + 1]
           e == IF urlparse(resource.link).scheme = ""
                THEN "MissingSchema" ELSE "ConnectionError"
       IN  /\ requests_log' = Append(requests_log,
                 [pos |-> res_idx + 1, url |-> resource.link,
                  result |-> e, body |-> ""])
           /\ Raise(e)
    /\ disk' = {}
    /\ UNCHANGED <<url, dir_path, page_text, soup, tag_idx, found, cur, link,
                   resources, html, res_idx, content, writes_log>>

\* line 129: requests.get raises: MissingSchema for a link without scheme,
\* a ConnectionError when the transport fails
GetResourceFails ==
    /\ pc = "save"
    /\ res_idx < Len(resources)
    /\ LET resource == resources[res_idx + 1]
           e == IF urlparse(resource.link).scheme = ""
                THEN "MissingSchema" ELSE "ConnectionError"
       IN  /\ requests_log' = Append(requests_log,
                 [pos |-> res_idx + 1, url |-> resource.link,
                  result |-> e, body |-> ""])
           /\ Raise(e)
    /\ UNCHANGED <<url, dir_path, page_text, soup, tag_idx, found, cur, link,
                   resources, html, res_idx, content, disk, writes_log>>

\* lines 133-142: the content is written
WriteResource ==
    /\ pc = "write"
    /\ LET resource == resources[res_idx + 1]
           resource_path == path_join(dir_path, resource.name)
       IN  /\ disk' = WriteFile(disk, resource_path, content)
           /\ writes_log' = Append(writes_log,
                 [pos |-> res_idx + 1, path |-> resource_path,
                  data |-> content, result |-> "ok"])
    /\ res_idx' = res_idx + 1
    /\ pc' = "save"
    /\ UNCHANGED <<url, dir_path, error, page_text, soup, tag_idx, found, cur,
                   link, resources, html, content, requests_log>>

\* lines 139-140: open raises (the file is untouched), or write raises
\* after open truncated the file (a part of the content is in it)
WriteResourceFails ==
    /\ pc = "write"
    /\ LET resource == resources[res_idx + 1]
           resource_path == path_join(dir_path, resource.name)
       IN  \/ /\ disk' = disk
              /\ writes_log' = Append(writes_log,
                    [pos |-> res_idx + 1, path |-> resource_path,
                     data |-> "", result |-> "open failed"])
           \/ \E n \in 0..(Len(content) - 1) :
                 /\ disk' = WriteFile(disk, resource_path, Slice(content, 1, n))
                 /\ writes_log' = Append(writes_log,
                       [pos |-> res_idx + 1, path |-> resource_path,
                        data |-> Slice(content, 1, n),
                        result |-> "write failed"])
    /\ Raise("OSError")
    /\ UNCHANGED <<url, dir_path, page_text, soup, tag_idx, found, cur, link,
                   resources, html, res_idx, content, requests_log>>

\* line 144: the loop is over; lines 47-49: parse_page returns html
EndSaving ==
    /\ pc = "save"
    /\ res_idx = Len(resources)
    /\ pc' = "done"
    /\ UNCHANGED <<url, dir_path, error, page_text, soup, tag_idx, found, cur,
                   link, resources, html, res_idx, content, disk,
                   requests_log, writes_log>>

Next ==
    \/ GetPage
    \/ GetPageFails
    \/ FindAll
    \/ TagKeyError
    \/ ProcessTag
    \/ EndSearch
    \/ GetResource
    \/ GetResourceFails
    \/ WriteResource
    \/ WriteResourceFails
    \/ EndSaving

Spec == Init /\ [][Next]_vars

TypeOK ==
    /\ pc \in {"start", "search", "save", "write", "done", "raised"}
    /\ Len(soup) = Len(page_text)
    /\ res_idx \in 0..Len(resources)

(* ------------------------- vocabulary of the claims -------------------- *)

ResourceTags == {"img", "link", "script"}

\* search_resources has returned
SearchReturned ==
    \/ pc \in {"save", "write", "done"}
    \/ pc = "raised" /\ error # "KeyError" /\ Len(requests_log) > 1

\* an element of one of the three kinds that carries its link attribute
IsCandidate(e) ==
    e.name \in ResourceTags /\ HasAttr(e, TAGS_LINK_ATTRIBUTES(e.name))

RawOf(e) == GetAttr(e, TAGS_LINK_ATTRIBUTES(e.name))

\* for every page URL and raw link of the inputs: the full link, whether
\* it is local, whether it names another host, the resource it stands for
LinkTable ==
    [p \in PageUrls |->
        [l \in RawLinks |->
            LET full == get_full_link(l, p)
            IN  [full |-> full,
                 local |-> is_local_link(full, p),
                 remote |-> urlparse(full).netloc # urlparse(p).netloc,
                 resource |-> [link |-> full,
                               name |-> create_resource_name(full)]]]]

DirNameTable == [p \in PageUrls |-> get_dir_name(p)]

FullOf(e) == LinkTable[url][RawOf(e)].full

IsLocalElem(e) == IsCandidate(e) /\ LinkTable[url][RawOf(e)].local

IsRemoteElem(e) == IsCandidate(e) /\ LinkTable[url][RawOf(e)].remote

ExpectedResource(e) == LinkTable[url][RawOf(e)].resource

\* the resources of the local elements among positions i..Len(doc) that
\* satisfy the filter, in document order
RECURSIVE ResourcesFrom(_, _, _)
ResourcesFrom(doc, names, i) ==
    IF i > Len(doc) THEN << >>
    ELSE (IF doc[i].name \in names /\ IsLocalElem(doc[i])
          THEN <<ExpectedResource(doc[i])>> ELSE << >>)
         \o ResourcesFrom(doc, names, i + 1)

\* the calls of requests.get made for resources, and the writes completed
ResourceRequests == SelectSeq(requests_log, LAMBDA q : q.pos > 0)

CompletedWrites == SelectSeq(writes_log, LAMBDA w : w.result = "ok")

RequestRaised(q) == q.result \notin {"200", "404"}

(* -------------------------------- claims ------------------------------- *)

\* C1: when the fetch or the write of the resource at position k raises,
\* save_resources stops there: the failing call is the last one made, no
\* resource after k is fetched or written, k is not counted as saved, and
\* the exception leaves parse_page, which returns no html.
C1_FailFast ==
    /\ \A k \in DOMAIN requests_log :
          RequestRaised(requests_log[k]) =>
            /\ k = Len(requests_log)
            /\ pc = "raised"
            /\ error = requests_log[k].result
            /\ res_idx < requests_log[k].pos \/ requests_log[k].pos = 0
            /\ \A j \in DOMAIN writes_log :
                  writes_log[j].pos < requests_log[k].pos
    /\ \A k \in DOMAIN writes_log :
          writes_log[k].result # "ok" =>
            /\ k = Len(writes_log)
            /\ pc = "raised"
            /\ error = "OSError"
            /\ res_idx < writes_log[k].pos
            /\ \A j \in DOMAIN requests_log :
                  requests_log[j].pos <= writes_log[k].pos

\* C1 witness: the fetch of the first of two resources raised
C1_Witness ==
    /\ pc = "raised"
    /\ Len(resources) = 2
    /\ Len(requests_log) = 2
    /\ requests_log[2].pos = 1
    /\ requests_log[2].result = "ConnectionError"

C3_RoundTripRewrite ==
    SearchReturned =>
        /\ Len(resources) =
              Cardinality({i \in DOMAIN page_text : IsLocalElem(page_text[i])})
        /\ \A i \in DOMAIN page_text :
              IsLocalElem(page_text[i]) =>
                LET r == ExpectedResource(page_text[i])
                IN  /\ html[i].name = page_text[i].name
                    /\ html[i].attrs =
                          {<<TAGS_LINK_ATTRIBUTES(page_text[i].name),
                             DirNameTable[url] \o "/" \o r.name>>}
                    /\ Cardinality({k \in DOMAIN resources : resources[k] = r})
                         = Cardinality({j \in DOMAIN page_text :
                                 /\ IsLocalElem(page_text[j])
                                 /\ ExpectedResource(page_text[j]) = r})
        /\ \A k \in DOMAIN resources :
              \E i \in DOMAIN page_text :
                 IsLocalElem(page_text[i])
                 /\ resources[k] = ExpectedResource(page_text[i])

\* C3 witness: a page with the same local link twice
C3_Witness ==
    /\ SearchReturned
    /\ Len(page_text) = 2
    /\ IsLocalElem(page_text[1]) /\ IsLocalElem(page_text[2])
    /\ FullOf(page_text[1]) = FullOf(page_text[2])
    /\ Len(resources) = 2

\* C4: an element whose resolved link names another host keeps its
\* attribute as it was and gets no resource; an element of another tag is
\* never modified.
C4_NonLocalPassthrough ==
    \A i \in DOMAIN page_text :
        LET e == page_text[i]
        IN  /\ e.name \notin ResourceTags =>
                  soup[i] = e /\ (SearchReturned => html[i] = e)
            /\ IsRemoteElem(e) =>
                  /\ soup[i] = e
                  /\ SearchReturned => html[i] = e
                  /\ \A k \in DOMAIN resources :
                        resources[k].link # FullOf(e)

\* C4 witness: a page with an element of another host and an element of
\* another tag has been processed
C4_Witness ==
    /\ SearchReturned
    /\ \E i \in DOMAIN page_text :
          /\ IsRemoteElem(page_text[i])
          /\ RawOf(page_text[i]) = "https://cdn.other.com/x.js"
    /\ \E i \in DOMAIN page_text : page_text[i].name = "a"

\* C5 as stated: for a raw link without host, the full link is the standard
\* join of the raw link with the page URL.
C5_StandardJoin ==
    (cur # 0 /\ error # "KeyError"
     /\ urlparse(RawOf(page_text[cur])).netloc = "") =>
        link = urljoin(url, RawOf(page_text[cur]))

\* C6 as stated: every full link has a scheme and a host, and so has the
\* link of every resource.
C6_AbsoluteLinks ==
    /\ (cur # 0 /\ error # "KeyError") =>
          urlparse(link).scheme # "" /\ urlparse(link).netloc # ""
    /\ \A k \in DOMAIN resources : urlparse(resources[k].link).scheme # ""

\* C7 as stated: search_resources raises nothing, and an element whose link
\* attribute is missing or empty is left untouched and gets no resource.
C7_MissingOrEmptySkipped ==
    /\ error # "KeyError"
    /\ \A i \in DOMAIN page_text :
          LET e == page_text[i]
          IN  (e.name \in ResourceTags
               /\ (~IsCandidate(e) \/ RawOf(e) = "")) =>
                 soup[i] = e
    /\ SearchReturned =>
          Len(resources) =
            Cardinality({i \in DOMAIN page_text :
                            IsLocalElem(page_text[i])
                            /\ RawOf(page_text[i]) # ""})

\* C8 as stated: a fetch that ends in a transport failure or in an error
\* status makes save_resources fail, and no file is written for it.
C8_FetchFailureFatal ==
    \A k \in DOMAIN requests_log :
        (requests_log[k].pos > 0
         /\ requests_log[k].result \in {"ConnectionError", "404"}) =>
            /\ pc = "raised"
            /\ \A j \in DOMAIN writes_log :
                  writes_log[j].pos # requests_log[k].pos

\* C9: after save_resources completed, the file of a name holds the bytes
\* fetched for the last resource of that name, and there is one file per
\* name.
C9_LastWriterWins ==
    pc = "done" =>
        /\ \A i \in DOMAIN resources :
              LET last == CHOOSE j \in DOMAIN resources :
                            /\ resources[j].name = resources[i].name
                            /\ \A m \in DOMAIN resources :
                                  resources[m].name = resources[i].name
                                    => m <= j
              IN  <<path_join(dir_path, resources[i].name),
                    ResourceRequests[last].body>> \in disk
        /\ Cardinality(disk) =
              Cardinality({resources[i].name : i \in DOMAIN resources})

\* C9 witness: two resources of different links and of one name, fetched
\* with different bytes
C9_Witness ==
    /\ pc = "done"
    /\ Len(resources) = 2
    /\ resources[1].name = resources[2].name
    /\ resources[1].link # resources[2].link
    /\ ResourceRequests[1].body # ResourceRequests[2].body

\* C10: the resources are fetched once each and in order, the writes
\* completed are those of a prefix of the list, a resource is fetched only
\* after the one before it is written; after an abort on resource k the
\* writes of the resources before k, and only these, have completed and
\* their files are left on disk; after a success all are written.
C10_PrefixInvariant ==
    /\ \A k \in DOMAIN ResourceRequests : ResourceRequests[k].pos = k
    /\ \A k \in DOMAIN CompletedWrites : CompletedWrites[k].pos = k
    /\ Len(CompletedWrites) = res_idx
    /\ Len(ResourceRequests) <= Len(CompletedWrites) + 1
    /\ Len(writes_log) <= Len(ResourceRequests)
    /\ (pc = "raised" /\ ResourceRequests # << >>) =>
          Len(CompletedWrites) = Len(ResourceRequests) - 1
    /\ pc = "done" => Len(CompletedWrites) = Len(resources)
    /\ \A k \in DOMAIN CompletedWrites :
          /\ CompletedWrites[k].path = path_join(dir_path, resources[k].name)
          /\ \E f \in disk : f[1] = CompletedWrites[k].path

\* C10 witness: the fetch of the second resource raised after the first
\* one was written
C10_Witness ==
    /\ pc = "raised"
    /\ res_idx = 1
    /\ Len(ResourceRequests) = 2
    /\ disk # {}
====
